---- MODULE Spec2Model ----
(***************************************************************************)
(* Floorplan & Area Calculator (src/app.py).                               *)
(*                                                                         *)
(* The script is a Streamlit page: every widget event re-executes the      *)
(* whole script.  A run first loads properties.json (line 30), then reads  *)
(* the widgets, builds the room summary, draws the floorplan, shows the    *)
(* totals and, when the save button was pressed, rewrites properties.json. *)
(* Decimal numbers are modelled as exact non-negative rationals <<n, d>>   *)
(* in lowest terms; the rounding of binary floating point is not modelled. *)
(***************************************************************************)
EXTENDS Integers, Sequences, FiniteSets, TLC

VARIABLES
    file,            \* properties.json: [exists, complete, body]
    property_name,   \* text_input widget, per session (sequence of characters)
    room_counts,     \* count number_input widgets, per session: label index -> count
    dims,            \* dimension number_input widgets, per session: <<c, i>> -> four values
    clicked,         \* the save button was pressed and its run has not finished
    pc,              \* "idle" | "loaded" (between line 30 and the rest of the script)
    properties_data, \* the script's dict while a run is between line 30 and its end
    df,              \* the summary table on screen
    plot,            \* the floorplan on screen
    metrics,         \* the totals on screen
    status,          \* how the last run ended
    save_button,     \* the save button is on screen
    saved,           \* names in the success message on screen (at most one)
    hist             \* history per session, used only to state properties

vars == <<file, property_name, room_counts, dims, clicked, pc,
          properties_data, df, plot, metrics, status, save_button, saved, hist>>

Sessions == {1, 2}

\* ------------------------------------------------------------------------
\* Bounds of the exploration
\* ------------------------------------------------------------------------
MaxRooms == 2
MaxCount == 2
StoreRooms == 1

\* ------------------------------------------------------------------------
\* Decimal numbers
\* ------------------------------------------------------------------------
RECURSIVE GCD(_, _)
GCD(a, b) == IF b = 0 THEN a ELSE GCD(b, a % b)

Rat(n, d) == LET g == GCD(n, d) IN <<n \div g, d \div g>>
RInt(n) == <<n, 1>>
RAdd(p, q) == Rat(p[1] * q[2] + q[1] * p[2], p[2] * q[2])
RMul(p, q) == Rat(p[1] * q[1], p[2] * q[2])
RDiv(p, q) == Rat(p[1] * q[2], p[2] * q[1])
RLeq(p, q) == p[1] * q[2] <= q[1] * p[2]
RMax(p, q) == IF RLeq(p, q) THEN q ELSE p
Zero == RInt(0)

\* ------------------------------------------------------------------------
\* Helper functions
\* ------------------------------------------------------------------------
to_feet_NoInches(ft, inch) == ft

to_feet(ft, inch) == RAdd(ft, RDiv(inch, RInt(12)))

room_area(l_ft, l_in, b_ft, b_in) == RMul(to_feet(l_ft, l_in), to_feet(b_ft, b_in))

room_types == <<
    [label |-> "Bedrooms",     prefix |-> "Bedroom"],
    [label |-> "Toilets",      prefix |-> "Toilet"],
    [label |-> "Drawing Room", prefix |-> "Drawing"],
    [label |-> "Foyer",        prefix |-> "Foyer"],
    [label |-> "Dining",       prefix |-> "Dining"],
    [label |-> "Kitchen",      prefix |-> "Kitchen"],
    [label |-> "Wash Area",    prefix |-> "Wash"],
    [label |-> "Balcony",      prefix |-> "Balcony"],
    [label |-> "Store Room",   prefix |-> "Store"] >>

LabelIdx == 1..Len(room_types)

CountMax == 10

RoomName_FromZero(prefix, i) == prefix \o " " \o ToString(i - 1)

\* f"{prefix} {i}"
RoomName(prefix, i) == prefix \o " " \o ToString(i)

DefaultDims == [Lft |-> Zero, Lin |-> Zero, Bft |-> Zero, Bin |-> Zero]

\* property_name.strip()
IsSpace(ch) == ch = " "

RECURSIVE LStrip(_)
LStrip(t) == IF t # <<>> /\ IsSpace(Head(t)) THEN LStrip(Tail(t)) ELSE t

RECURSIVE RStrip(_)
RStrip(t) ==
    IF t # <<>> /\ IsSpace(t[Len(t)]) THEN RStrip(SubSeq(t, 1, Len(t) - 1)) ELSE t

strip(t) == RStrip(LStrip(t))

\* ------------------------------------------------------------------------
\* Python dict as an insertion-ordered sequence of <<key, value>>
\* ------------------------------------------------------------------------
DictKeys(d) == {d[k][1] : k \in DOMAIN d}
DictHas(d, key) == key \in DictKeys(d)
DictGet(d, key) == d[CHOOSE k \in DOMAIN d : d[k][1] = key][2]
DictEntries(d) == {d[k] : k \in DOMAIN d}

DictSet(d, key, value) ==
    IF DictHas(d, key)
    THEN [k \in DOMAIN d |-> IF d[k][1] = key THEN <<key, value>> ELSE d[k]]
    ELSE Append(d, <<key, value>>)

\* ------------------------------------------------------------------------
\* Persistent storage: properties.json
\* A file is [exists, complete, body]: body is the sequence of members of
\* the JSON object; complete is FALSE for a text that does not parse (a file
\* truncated by open(..., "w") whose write did not finish).
\* ------------------------------------------------------------------------
NoFile == [exists |-> FALSE, complete |-> FALSE, body |-> <<>>]
Truncated == [exists |-> TRUE, complete |-> FALSE, body |-> <<>>]

\* json.dump(data, f, indent=4)
json_dump(data) ==
    [exists |-> TRUE, complete |-> TRUE,
     body |-> [k \in DOMAIN data |-> [name |-> data[k][1], value |-> data[k][2]]]]

\* json.load(f): members in file order, a repeated name keeps the last value
RECURSIVE json_members(_, _)
json_members(body, acc) ==
    IF body = <<>> THEN acc
    ELSE json_members(Tail(body), DictSet(acc, Head(body).name, Head(body).value))

json_load(f) ==
    IF f.complete THEN [ok |-> TRUE, value |-> json_members(f.body, <<>>)]
    ELSE [ok |-> FALSE, value |-> <<>>]

\* io: outcome of open() chosen by the environment
ReadOutcomes == {"ok", "EACCES"}
WriteOutcomes == {"ok", "EACCES", "ENOSPC"}

load_properties(f, io) ==
    IF f.exists
    THEN IF io = "ok" THEN json_load(f) ELSE [ok |-> FALSE, value |-> <<>>]
    ELSE [ok |-> TRUE, value |-> <<>>]

save_properties(data, f, io) ==
    CASE io = "ok"     -> [ok |-> TRUE,  file |-> json_dump(data)]
      [] io = "EACCES" -> [ok |-> FALSE, file |-> f]
      [] io = "ENOSPC" -> [ok |-> FALSE, file |-> Truncated]

\* ------------------------------------------------------------------------
\* Room dimensions input (lines 109-137)
\* ------------------------------------------------------------------------
SummaryRow(c, i, w) ==
    [Room     |-> RoomName(room_types[c].prefix, i),
     Category |-> room_types[c].label,
     Length   |-> to_feet(w.Lft, w.Lin),
     Breadth  |-> to_feet(w.Bft, w.Bin),
     Area     |-> room_area(w.Lft, w.Lin, w.Bft, w.Bin)]

\* for i in range(1, count + 1)
RECURSIVE RoomLoop(_, _, _, _, _)
RoomLoop(c, i, count, W, acc) ==
    IF i > count THEN acc
    ELSE LET w == W[<<c, i>>]
             area == room_area(w.Lft, w.Lin, w.Bft, w.Bin)
         IN RoomLoop(c, i + 1, count, W,
                     [summary    |-> Append(acc.summary, SummaryRow(c, i, w)),
                      total_area |-> RAdd(acc.total_area, area)])

\* for label, prefix in room_types.items()
RECURSIVE TypeLoop(_, _, _, _)
TypeLoop(c, counts, W, acc) ==
    IF c > Len(room_types) THEN acc
    ELSE IF counts[c] = 0 THEN TypeLoop(c + 1, counts, W, acc)
    ELSE TypeLoop(c + 1, counts, W, RoomLoop(c, 1, counts[c], W, acc))

Summarise(counts, W) == TypeLoop(1, counts, W, [summary |-> <<>>, total_area |-> Zero])

\* ------------------------------------------------------------------------
\* draw_floorplan (lines 41-68)
\* ------------------------------------------------------------------------
Gap == 1
Margin == 3

NoPlot == [drawn |-> FALSE, rects |-> <<>>, xlim |-> Zero, ylim |-> Zero]

PlaceRoom_NoGap(row, offset_y) ==
    [rect   |-> [x |-> Zero, y |-> offset_y, width |-> row.Length,
                 height |-> row.Breadth, label |-> row.Room],
     offset |-> RAdd(offset_y, row.Breadth)]

\* one pass of the loop body: the rectangle and the next offset_y
PlaceRoom(row, offset_y) ==
    [rect   |-> [x |-> Zero, y |-> offset_y, width |-> row.Length,
                 height |-> row.Breadth, label |-> row.Room],
     offset |-> RAdd(RAdd(offset_y, row.Breadth), RInt(Gap))]

RECURSIVE PlotLoop(_, _, _)
PlotLoop(rows, offset_y, acc) ==
    IF rows = <<>> THEN [rects |-> acc, offset_y |-> offset_y]
    ELSE LET p == PlaceRoom(Head(rows), offset_y)
         IN PlotLoop(Tail(rows), p.offset, Append(acc, p.rect))

RECURSIVE MaxLength(_)
MaxLength(rows) ==
    IF Len(rows) = 1 THEN rows[1].Length
    ELSE RMax(rows[1].Length, MaxLength(Tail(rows)))

draw_floorplan(rows) ==
    IF rows = <<>> THEN NoPlot
    ELSE LET r == PlotLoop(rows, Zero, <<>>)
         IN [drawn |-> TRUE, rects |-> r.rects,
             xlim |-> RAdd(MaxLength(rows), RInt(Margin)),
             ylim |-> RAdd(r.offset_y, RInt(Margin))]

\* ------------------------------------------------------------------------
\* Totals (lines 165-178) and the saved record (lines 185-191)
\* ------------------------------------------------------------------------
Efficiency == <<3, 4>>
SqftPerSqyd == 9

NoMetrics == [shown |-> FALSE, total_sqft |-> Zero, total_sqyd |-> Zero,
              claimed_area |-> Zero, claimed_area_sqyd |-> Zero]

Totals_TimesEfficiency(total_area) ==
    LET claimed == RMul(total_area, Efficiency)
    IN [shown |-> TRUE,
        total_sqft |-> total_area,
        total_sqyd |-> RDiv(total_area, RInt(SqftPerSqyd)),
        claimed_area |-> claimed,
        claimed_area_sqyd |-> RDiv(claimed, RInt(SqftPerSqyd))]

Totals(total_area) ==
    LET claimed == RDiv(total_area, Efficiency)
    IN [shown |-> TRUE,
        total_sqft |-> total_area,
        total_sqyd |-> RDiv(total_area, RInt(SqftPerSqyd)),
        claimed_area |-> claimed,
        claimed_area_sqyd |-> RDiv(claimed, RInt(SqftPerSqyd))]

PropertyRecord(rows, m) ==
    [rooms |-> rows,
     total_sqft |-> m.total_sqft,
     total_sqyd |-> m.total_sqyd,
     claimed_area |-> m.claimed_area,
     claimed_area_sqyd |-> m.claimed_area_sqyd]

\* if not df.empty and property_name.strip():
SaveEnabled_NoStrip(rows, name) == rows # <<>> /\ name # <<>>

SaveEnabled(rows, name) == rows # <<>> /\ strip(name) # <<>>

\* properties_data[property_name] = ...
StoreKey(name) == name

\* lines 192-193: one call of save_properties, then the success message
SaveStep_Retry(data, f, io) ==
    LET w == save_properties(data, f, io)
        again == IF w.ok THEN w ELSE save_properties(data, w.file, "ok")
    IN [file |-> again.file, ok |-> again.ok,
        attempts |-> IF w.ok THEN 1 ELSE 2, success_shown |-> again.ok]

SaveStep(data, f, io) ==
    LET w == save_properties(data, f, io)
    IN [file |-> w.file, ok |-> w.ok, attempts |-> 1, success_shown |-> w.ok]

\* line 185: the dict the script holds after the assignment
StoreInsert_Reload(data, f, key, rec) ==
    LET now == json_load(f)
    IN DictSet(IF f.exists /\ now.ok THEN now.value ELSE data, key, rec)

StoreInsert_Replace(data, f, key, rec) == <<<<key, rec>>>>

StoreInsert(data, f, key, rec) == DictSet(data, key, rec)

\* ------------------------------------------------------------------------
\* State
\* ------------------------------------------------------------------------
NoHist == [attempts |-> 0, missed |-> <<>>]

NoDims == [k \in {} |-> DefaultDims]

Init ==
    /\ file = NoFile
    /\ property_name = [s \in Sessions |-> <<>>]
    /\ room_counts = [s \in Sessions |-> [c \in LabelIdx |-> 0]]
    /\ dims = [s \in Sessions |-> NoDims]
    /\ clicked = [s \in Sessions |-> FALSE]
    /\ pc = [s \in Sessions |-> "idle"]
    /\ properties_data = [s \in Sessions |-> <<>>]
    /\ df = [s \in Sessions |-> <<>>]
    /\ plot = [s \in Sessions |-> NoPlot]
    /\ metrics = [s \in Sessions |-> NoMetrics]
    /\ status = [s \in Sessions |-> "ok"]
    /\ save_button = [s \in Sessions |-> FALSE]
    /\ saved = [s \in Sessions |-> {}]
    /\ hist = [s \in Sessions |-> NoHist]

TotalRooms(counts) ==
    LET RECURSIVE Sum(_)
        Sum(c) == IF c > Len(room_types) THEN 0 ELSE counts[c] + Sum(c + 1)
    IN Sum(1)

\* the widgets are on the page and the script is not running
FormReady(s) == pc[s] = "idle" /\ status[s] # "load_error"

\* ------------------------------------------------------------------------
\* A run starts: line 30, properties_data = load_properties()
\* ------------------------------------------------------------------------
LoadStep(s, io, click) ==
    LET r == load_properties(file, io)
    IN /\ pc' = [pc EXCEPT ![s] = IF r.ok THEN "loaded" ELSE "idle"]
       /\ clicked' = [clicked EXCEPT ![s] = r.ok /\ click]
       /\ properties_data' = [properties_data EXCEPT ![s] = r.value]
       /\ hist' = [hist EXCEPT ![s] = NoHist]
       \* the page is redrawn; an uncaught exception ends the run right here
       /\ status' = [status EXCEPT ![s] = IF r.ok THEN "running" ELSE "load_error"]
       /\ df' = [df EXCEPT ![s] = <<>>]
       /\ plot' = [plot EXCEPT ![s] = NoPlot]
       /\ metrics' = [metrics EXCEPT ![s] = NoMetrics]
       /\ save_button' = [save_button EXCEPT ![s] = FALSE]
       /\ saved' = [saved EXCEPT ![s] = {}]

\* ------------------------------------------------------------------------
\* Widget events; each one starts a run
\* ------------------------------------------------------------------------
\* line 74
SetName(s, names, ios) ==
    /\ FormReady(s)
    /\ \E n \in names \ {property_name[s]} :
           property_name' = [property_name EXCEPT ![s] = n]
    /\ \E io \in ios : LoadStep(s, io, FALSE)
    /\ UNCHANGED <<file, room_counts, dims>>

\* line 101; the dimension widgets of rooms no longer shown lose their values
SetCount(s, labels, cap, ios) ==
    /\ FormReady(s)
    /\ \E c \in labels :
       \E n \in (0..(IF MaxCount < CountMax THEN MaxCount ELSE CountMax))
                    \ {room_counts[s][c]} :
           LET counts == [room_counts[s] EXCEPT ![c] = n]
               shown == UNION {{<<d, i>> : i \in 1..counts[d]} : d \in LabelIdx}
           IN /\ TotalRooms(counts) <= cap
              /\ room_counts' = [room_counts EXCEPT ![s] = counts]
              /\ dims' = [dims EXCEPT ![s] =
                            [k \in shown |-> IF k \in DOMAIN dims[s]
                                             THEN dims[s][k] ELSE DefaultDims]]
    /\ \E io \in ios : LoadStep(s, io, FALSE)
    /\ UNCHANGED <<file, property_name>>

\* lines 121-124; vals gives the values tried for each of the four widgets
SetDim(s, labels, vals, ios) ==
    /\ FormReady(s)
    /\ \E k \in {r \in DOMAIN dims[s] : r[1] \in labels} :
       \E fld \in DOMAIN vals :
       \E v \in vals[fld] \ {dims[s][k][fld]} :
           dims' = [dims EXCEPT ![s][k][fld] = v]
    /\ \E io \in ios : LoadStep(s, io, FALSE)
    /\ UNCHANGED <<file, property_name, room_counts>>

\* line 184: the button is pressed; st.button returns True in the run it starts
ClickSave(s, ios) ==
    /\ FormReady(s)
    /\ save_button[s]
    /\ \E io \in ios : LoadStep(s, io, TRUE)
    /\ UNCHANGED <<file, property_name, room_counts, dims>>

\* ------------------------------------------------------------------------
\* The rest of the run: lines 74-216
\* ------------------------------------------------------------------------
\* what a session that loaded in order to save, and has not saved yet, misses
\* when s rewrites the file: the entry, when it is the first rewrite since
\* the load and the file did not hold the entry; two entries once there was
\* any other rewrite
Missed(s, key, rec, newfile) ==
    [t \in Sessions |->
        IF t # s /\ pc[t] = "loaded" /\ clicked[t] /\ newfile # file
        THEN LET e == [name |-> key, rec |-> rec]
             IN IF /\ hist[t].missed = <<>>
                   /\ <<key, rec>> \notin DictEntries(json_load(file).value)
                THEN <<e>>
                ELSE <<e, e>>
        ELSE hist[t].missed]

Body(s, ios) ==
    /\ pc[s] = "loaded"
    /\ LET r == Summarise(room_counts[s], dims[s])
           rows == r.summary
           m == IF rows # <<>> THEN Totals(r.total_area) ELSE NoMetrics
           enabled == SaveEnabled(rows, property_name[s])
       IN /\ df' = [df EXCEPT ![s] = rows]
          /\ plot' = [plot EXCEPT ![s] = draw_floorplan(rows)]
          /\ metrics' = [metrics EXCEPT ![s] = m]
          /\ save_button' = [save_button EXCEPT ![s] = enabled]
          /\ IF enabled /\ clicked[s]
             THEN \E io \in ios :
                  LET key == StoreKey(property_name[s])
                      rec == PropertyRecord(rows, m)
                      data == StoreInsert(properties_data[s], file, key, rec)
                      w == SaveStep(data, file, io)
                      missed == Missed(s, key, rec, w.file)
                  IN /\ file' = w.file
                     /\ status' = [status EXCEPT ![s] =
                                      IF w.ok THEN "saved" ELSE "save_error"]
                     /\ saved' = [saved EXCEPT ![s] =
                                      IF w.success_shown THEN {key} ELSE {}]
                     /\ hist' = [t \in Sessions |->
                          IF t = s
                          THEN [hist[s] EXCEPT !.attempts = w.attempts]
                          ELSE [hist[t] EXCEPT !.missed = missed[t]]]
             ELSE /\ status' = [status EXCEPT ![s] = "ok"]
                  /\ saved' = [saved EXCEPT ![s] = {}]
                  /\ UNCHANGED <<file, hist>>
    \* the run is over: the script's variables are gone, the page stays
    /\ properties_data' = [properties_data EXCEPT ![s] = <<>>]
    /\ pc' = [pc EXCEPT ![s] = "idle"]
    /\ clicked' = [clicked EXCEPT ![s] = FALSE]
    /\ UNCHANGED <<property_name, room_counts, dims>>

\* ------------------------------------------------------------------------
\* Specifications
\* ------------------------------------------------------------------------
Chars(str) == CASE str = ""   -> <<>>
                [] str = " "  -> <<" ">>
                [] str = "A"  -> <<"A">>
                [] str = "A " -> <<"A", " ">>
                [] str = "B"  -> <<"B">>

\* Spec: one session and its properties.json; bedrooms only, failing I/O
StoreNames == {Chars(""), Chars(" "), Chars("A"), Chars("A ")}
StoreLabels == {1}
StoreVals == [Lft |-> {Zero, RInt(10)}, Bft |-> {Zero, RInt(8)}]

Next ==
    \/ SetName(1, StoreNames, ReadOutcomes)
    \/ SetCount(1, StoreLabels, StoreRooms, ReadOutcomes)
    \/ SetDim(1, StoreLabels, StoreVals, ReadOutcomes)
    \/ ClickSave(1, ReadOutcomes)
    \/ Body(1, WriteOutcomes)

Spec == Init /\ [][Next]_vars

\* SpecRace: two sessions on one properties.json, at most one bedroom each;
\* session 1 also edits the length of its bedroom
RaceNames == {Chars(""), Chars("A"), Chars("B")}
RaceVals == [Lft |-> {Zero, RInt(10)}]

NextRace ==
    \/ \E s \in Sessions :
           \/ SetName(s, RaceNames, {"ok"})
           \/ SetCount(s, StoreLabels, 1, {"ok"})
           \/ ClickSave(s, {"ok"})
           \/ Body(s, {"ok"})
    \/ SetDim(1, StoreLabels, RaceVals, {"ok"})

SpecRace == Init /\ [][NextRace]_vars

\* SpecForm: one session fills the form, every category, up to its first
\* save; the dimensions of bedrooms and store rooms are edited
FormNames == {Chars(""), Chars("A")}
FormLabels == {1, 9}
FormVals == [Lft |-> {Zero, RInt(10)}, Lin |-> {Zero, RInt(6)},
             Bft |-> {Zero, RInt(8)}, Bin |-> {Zero, RInt(3)}]

NextForm ==
    \/ /\ ~file.exists
       /\ \/ SetName(1, FormNames, {"ok"})
          \/ SetCount(1, LabelIdx, MaxRooms, {"ok"})
          \/ SetDim(1, FormLabels, FormVals, {"ok"})
          \/ ClickSave(1, {"ok"})
    \/ Body(1, {"ok"})

SpecForm == Init /\ [][NextForm]_vars

\* ------------------------------------------------------------------------
\* Properties
\* ------------------------------------------------------------------------
REq(p, q) == p[1] * q[2] = q[1] * p[2]
RTimes(n, p) == <<n * p[1], p[2]>>

RunDone(s) == pc[s] = "idle" /\ status[s] \in {"ok", "saved", "save_error"}

FileDict == json_load(file).value

RECURSIVE SumAreas(_)
SumAreas(rows) ==
    IF rows = <<>> THEN <<0, 1>>
    ELSE LET a == Head(rows).Area
             t == SumAreas(Tail(rows))
         IN <<a[1] * t[2] + t[1] * a[2], a[2] * t[2]>>

\* C1: after a run over a non-empty room list the totals on screen are:
\* total_sqft the sum of the rooms' areas (zero areas included), total_sqyd
\* a ninth of it, claimed_area with claimed * 3 = total * 4, claimed_area_sqyd
\* a ninth of that; and a record just saved holds the rooms and these four
\* values.
C1_Aggregate ==
    \A s \in Sessions :
        (RunDone(s) /\ df[s] # <<>>) =>
            LET m == metrics[s]
            IN /\ m.shown
               /\ REq(m.total_sqft, SumAreas(df[s]))
               /\ REq(RTimes(9, m.total_sqyd), m.total_sqft)
               /\ REq(RTimes(3, m.claimed_area), RTimes(4, m.total_sqft))
               /\ REq(RTimes(9, m.claimed_area_sqyd), m.claimed_area)
               /\ (status[s] = "saved" =>
                     \A key \in saved[s] :
                         /\ DictHas(FileDict, key)
                         /\ LET rec == DictGet(FileDict, key)
                            IN /\ rec.rooms = df[s]
                               /\ rec.total_sqft = m.total_sqft
                               /\ rec.total_sqyd = m.total_sqyd
                               /\ rec.claimed_area = m.claimed_area
                               /\ rec.claimed_area_sqyd = m.claimed_area_sqyd)

C1_Witness ==
    /\ status[1] = "saved"
    /\ Len(df[1]) = 2
    /\ \E k \in DOMAIN df[1] : df[1][k].Area = <<0, 1>>
    /\ metrics[1].total_sqft = <<84, 1>>
    /\ metrics[1].claimed_area = <<112, 1>>
    /\ Len(FileDict) = 1

KeyBefore(a, b) == a[1] < b[1] \/ (a[1] = b[1] /\ a[2] < b[2])
KeyAt(D, k) == CHOOSE a \in D : Cardinality({b \in D : KeyBefore(b, a)}) = k - 1

\* 12 * feet = 12 * ft + inch
IsFeetOf(feet, ft, inch) ==
    12 * feet[1] * ft[2] * inch[2] = feet[2] * (12 * ft[1] * inch[2] + inch[1] * ft[2])

\* C2: every room on the form has its row in the summary, with
\* length = L_ft + L_in/12, breadth = B_ft + B_in/12 and area = length *
\* breadth; a room with a zero side has area 0 and still has its row, its
\* (zero) share of the total and its rectangle in the floorplan.
C2_RoomRows ==
    \A s \in Sessions :
        RunDone(s) =>
            /\ Len(df[s]) = Cardinality(DOMAIN dims[s])
            /\ df[s] # <<>> => Len(plot[s].rects) = Len(df[s])
            /\ df[s] # <<>> => REq(metrics[s].total_sqft, SumAreas(df[s]))
            /\ \A k \in DOMAIN df[s] :
                   LET row == df[s][k]
                       w == dims[s][KeyAt(DOMAIN dims[s], k)]
                   IN /\ IsFeetOf(row.Length, w.Lft, w.Lin)
                      /\ IsFeetOf(row.Breadth, w.Bft, w.Bin)
                      /\ row.Area[1] * row.Length[2] * row.Breadth[2]
                           = row.Area[2] * row.Length[1] * row.Breadth[1]
                      /\ (row.Length[1] = 0 \/ row.Breadth[1] = 0) => row.Area[1] = 0

C2_Witness ==
    /\ RunDone(1)
    /\ Len(df[1]) = 2
    /\ df[1][1].Length = <<21, 2>> /\ df[1][1].Breadth = <<8, 1>>
    /\ df[1][1].Area = <<84, 1>>
    /\ df[1][2].Length = <<1, 2>> /\ df[1][2].Breadth = <<0, 1>>
    /\ df[1][2].Area = <<0, 1>>
    /\ Len(plot[1].rects) = 2

\* C3: the floorplan of a non-empty room list has one rectangle per room, in
\* list order, with x = 0, width = length and height = breadth; the first is
\* at y = 0, each later one at the previous y + previous breadth + 1, and for
\* i < j, y_j >= y_i + height_i + 1.
C3_Floorplan ==
    \A s \in Sessions :
        (RunDone(s) /\ df[s] # <<>>) =>
            LET R == plot[s].rects
            IN /\ plot[s].drawn
               /\ Len(R) = Len(df[s])
               /\ \A k \in DOMAIN R :
                      /\ R[k].x = <<0, 1>>
                      /\ R[k].width = df[s][k].Length
                      /\ R[k].height = df[s][k].Breadth
                      /\ R[k].label = df[s][k].Room
               /\ R[1].y = <<0, 1>>
               /\ \A k \in 2..Len(R) :
                      LET a == R[k - 1].y
                          h == df[s][k - 1].Breadth
                          b == R[k].y
                      IN b[1] * a[2] * h[2] = b[2] * (a[1] * h[2] + h[1] * a[2] + a[2] * h[2])
               /\ \A i \in DOMAIN R : \A j \in DOMAIN R :
                      i < j =>
                          LET a == R[i].y
                              h == R[i].height
                              b == R[j].y
                          IN b[1] * a[2] * h[2] >= b[2] * (a[1] * h[2] + h[1] * a[2] + a[2] * h[2])

C3_Witness ==
    /\ RunDone(1)
    /\ Len(plot[1].rects) = 2
    /\ plot[1].rects[1].height = <<33, 4>>
    /\ plot[1].rects[2].y = <<37, 4>>
    /\ plot[1].rects[2].height = <<0, 1>>

CatIdx(row) == CHOOSE c \in LabelIdx : room_types[c].label = row.Category

\* C10: the room list holds exactly count[c] rooms of each category c and
\* nothing else, named "{prefix(c)} {i}" for i = 1..count[c], ordered by the
\* category order and then by index, and no two rooms share a name.
C10_RoomList ==
    \A s \in Sessions :
        RunDone(s) =>
            LET rows == df[s]
            IN /\ \A c \in LabelIdx : room_counts[s][c] \in 0..10
               /\ \A k \in DOMAIN rows :
                      \E c \in LabelIdx : room_types[c].label = rows[k].Category
               /\ \A c \in LabelIdx :
                      Cardinality({k \in DOMAIN rows :
                                      rows[k].Category = room_types[c].label})
                        = room_counts[s][c]
               /\ \A k \in DOMAIN rows :
                      LET j == Cardinality({m \in 1..k :
                                               rows[m].Category = rows[k].Category})
                      IN rows[k].Room
                           = room_types[CatIdx(rows[k])].prefix \o " " \o ToString(j)
               /\ \A k \in DOMAIN rows : \A m \in DOMAIN rows :
                      k < m => /\ CatIdx(rows[k]) <= CatIdx(rows[m])
                               /\ rows[k].Room # rows[m].Room

C10_Witness ==
    /\ RunDone(1)
    /\ Len(df[1]) = 2
    /\ df[1][1].Room = "Bedroom 1"
    /\ df[1][2].Room = "Bedroom 2"

SavedBy(s) == pc[s] = "loaded" /\ status'[s] = "saved"

\* C4: a successful save leaves a file that loads to a mapping in which the
\* saved name maps to the saved record and every other name maps to what
\* the saver held before; no key of the file goes away, and the file changes
\* only when a session writes.
C4_SaveRoundTrip ==
    [][/\ \A s \in Sessions :
            SavedBy(s) =>
                LET before == properties_data[s]
                    after == load_properties(file', "ok")
                IN /\ after.ok
                   /\ saved'[s] = {property_name[s]}
                   /\ \A key \in saved'[s] :
                          /\ DictHas(after.value, key)
                          /\ DictGet(after.value, key)
                               = PropertyRecord(df'[s], metrics'[s])
                          /\ DictKeys(after.value) = DictKeys(before) \cup {key}
                          /\ \A n \in DictKeys(before) \ {key} :
                                 DictGet(after.value, n) = DictGet(before, n)
                   /\ DictKeys(FileDict) \subseteq DictKeys(after.value)
       /\ file' # file =>
            \E s \in Sessions :
                pc[s] = "loaded" /\ status'[s] \in {"saved", "save_error"}
      ]_vars

C4_Witness ==
    /\ status[1] = "saved"
    /\ Len(FileDict) = 2
    /\ saved[1] = {FileDict[1][1]}
    /\ FileDict[1][2].total_sqft = <<80, 1>>
    /\ FileDict[2][2].total_sqft = <<0, 1>>

Blank(s) == strip(property_name[s]) = <<>>
NoRooms(s) == \A c \in LabelIdx : room_counts[s][c] = 0
Refused(s) == Blank(s) \/ NoRooms(s)

\* C5: while the property name is empty or only whitespace, or the form has
\* no room, the save button is not on the page and no save is under way; a
\* run in such a state leaves the file unchanged and never reaches the save
\* code; no record with an empty room list is in the file.
C5_SaveRefused ==
    /\ [](\A s \in Sessions :
             /\ Refused(s) => (~save_button[s] /\ ~clicked[s])
             /\ \A k \in DOMAIN FileDict : FileDict[k][2].rooms # <<>>)
    /\ [][\A s \in Sessions :
             (Refused(s) /\ pc[s] = "loaded" /\ pc'[s] = "idle") =>
                 /\ file' = file
                 /\ hist'[s].attempts = 0
                 /\ status'[s] = "ok"
                 /\ saved'[s] = {}]_vars

C5_Witness ==
    /\ property_name[1] = <<" ">>
    /\ Len(df[1]) = 1
    /\ RunDone(1)
    /\ ~save_button[1]
    /\ Len(FileDict) = 1

EntryInFile(s) ==
    /\ DictHas(FileDict, property_name[s])
    /\ DictGet(FileDict, property_name[s]) = PropertyRecord(df[s], metrics[s])

\* C8: a run calls save_properties at most once; when the run has called it
\* and the file does not hold the entry, the run ended in the error shown to
\* the user and the success message is not on the page.
C8_WriteFailure ==
    \A s \in Sessions :
        /\ hist[s].attempts <= 1
        /\ (pc[s] = "idle" /\ hist[s].attempts = 1 /\ ~EntryInFile(s)) =>
               (status[s] = "save_error" /\ saved[s] = {})
        /\ status[s] = "save_error" => (saved[s] = {} /\ hist[s].attempts = 1)
        /\ status[s] = "saved" => EntryInFile(s)

C8_Witness ==
    /\ status[1] = "save_error"
    /\ hist[1].attempts = 1
    /\ file = Truncated

\* C7: no load ends in a fatal error.
C7_LoadNeverFatal == \A s \in Sessions : status[s] # "load_error"

\* C9: every key of the store is a non-empty name without leading or
\* trailing whitespace.
C9_KeysTrimmed == \A key \in DictKeys(FileDict) : key # <<>> /\ strip(key) = key

\* C6: when a session saves after having missed exactly one entry that
\* another session wrote since its load, the file is the saver's loaded
\* mapping with its own entry, and the missed entry, when under another
\* name, is not in the file.
C6_LastWriteWins ==
    [][\A s \in Sessions :
          (SavedBy(s) /\ Len(hist[s].missed) = 1) =>
              LET e == hist[s].missed[1]
                  key == property_name[s]
                  after == load_properties(file', "ok")
              IN /\ after.ok
                 /\ after.value = DictSet(properties_data[s], key,
                                          PropertyRecord(df'[s], metrics'[s]))
                 /\ <<e.name, e.rec>> \notin DictEntries(properties_data[s])
                 /\ e.name # key => <<e.name, e.rec>> \notin DictEntries(after.value)
      ]_vars

C6_Witness ==
    \E s \in Sessions :
        /\ status[s] = "saved"
        /\ Len(hist[s].missed) = 1
        /\ hist[s].missed[1].name \notin saved[s]
        /\ DictKeys(FileDict) = saved[s]

====
